---- MODULE Spec2Model ----
(***************************************************************************)
(* Forensic scoring engine of src/src/main.py: cv2.imread, the four        *)
(* analyzers (frequency_score, noise_score, compression_score,             *)
(* color_corr_score) and the weighted aggregation of forensic_analyze.     *)
(*                                                                         *)
(* Numbers.  A Python float is a fixed-point integer with SCALE units per  *)
(* 1.0, or the value NaN, which every arithmetic operator propagates as    *)
(* IEEE-754 does.  The additive epsilons of the source (1e-8, 1e-12) are   *)
(* below the resolution: x / (y + 1e-8) is DivEps(x, y), which is x / y    *)
(* for y > 0 and the huge quotient x / 1e-8 for y = 0.                     *)
(* np.tanh and np.log are computed by integer algorithms (Tanh, Ln).       *)
(***************************************************************************)
EXTENDS Integers, Sequences, FiniteSets

\* ------------------------------------------------------------ bounds
\* The largest height and width of a decoded image, the number of invocations
\* of forensic_analyze, and the largest side of an image analysed repeatedly.
MaxH == 9
MaxW == 17
MaxRuns == 3
MaxRerunDim == 2

\* ------------------------------------------------------------ state
VARIABLES
    path,      \* the file image_path names
    pc,        \* where forensic_analyze stands
    image,     \* the local image
    ran,       \* the analyzers that have returned
    freq_s, noise_s, comp_s, color_s,   \* the locals holding the sub-scores
    noise_hist, noise_entropy,          \* noise_score's hist and entropy, as it returned
    blocks, neutral,                    \* compression_score: blocks visited, early return taken
    report,    \* the dictionary returned
    exception, \* the exception raised
    runs,      \* invocations of forensic_analyze started so far
    first      \* the first invocation: its file and what it returned or raised

vars == <<path, pc, image, ran, freq_s, noise_s, comp_s, color_s,
          noise_hist, noise_entropy, blocks, neutral, report, exception, runs, first>>

\* ------------------------------------------------------------ numbers
SCALE == 1000
NaN == -999999
Unset == -888888
Huge == 1000000

IsNaN(x) == x = NaN

Abs(x) == IF x < 0 THEN -x ELSE x
Max2(a, b) == IF a > b THEN a ELSE b
Min2(a, b) == IF a < b THEN a ELSE b

\* Division rounding toward zero, as a float quotient shown at the resolution.
Quot(a, b) == IF a < 0 THEN -((-a) \div b) ELSE a \div b

RECURSIVE IsqrtIter(_, _, _)
IsqrtIter(n, lo, hi) ==
    IF lo >= hi THEN lo
    ELSE LET mid == (lo + hi + 1) \div 2
         IN  IF mid * mid <= n THEN IsqrtIter(n, mid, hi)
                               ELSE IsqrtIter(n, lo, mid - 1)

\* np.sqrt on a non-negative integer, rounded down.
Isqrt(n) == IsqrtIter(n, 0, Min2(n, 46340))

RECURSIVE Pow2(_)
Pow2(k) == IF k = 0 THEN 1 ELSE 2 * Pow2(k - 1)

RECURSIVE Log2Floor(_)
Log2Floor(n) == IF n < 2 THEN 0 ELSE 1 + Log2Floor(n \div 2)

\* The fractional bits of log2 of a mantissa m / 4096 in [1, 2), by repeated
\* squaring: `bits` bits, most significant first.
RECURSIVE Log2Frac(_, _)
Log2Frac(m, bits) ==
    IF bits = 0 THEN 0
    ELSE LET sq == (m * m) \div 4096
         IN  IF sq >= 8192
             THEN Pow2(bits - 1) + Log2Frac(sq \div 2, bits - 1)
             ELSE Log2Frac(sq, bits - 1)

\* np.log of the integer n >= 1, in SCALE units.
LnInt(n) ==
    LET k == Log2Floor(n)
        m == (n * 4096) \div Pow2(k)
        log2x1024 == k * 1024 + Log2Frac(m, 10)
    IN  (log2x1024 * 6931) \div 10240

\* np.log of the fixed-point value x > 0 (x in SCALE units), in SCALE units.
Ln(x) == LnInt(x) - LnInt(SCALE)

\* np.tanh of a fixed-point value: the Pade approximant x(27+x^2)/(27+9x^2),
\* which is odd, increasing and reaches 1 at |x| = 3; beyond that it is 1.
Tanh(x) ==
    IF IsNaN(x) THEN NaN
    ELSE LET a  == Abs(x)
             x2 == (a * a) \div SCALE
             q  == ((27 * SCALE + x2) * SCALE) \div (27 * SCALE + 9 * x2)
             t  == IF a >= 3 * SCALE THEN SCALE ELSE Min2(SCALE, (a * q) \div SCALE)
         IN  IF x < 0 THEN -t ELSE t

\* np.clip(x, 0.0, 1.0): NaN passes through np.clip unchanged.
Clip01(x) ==
    IF IsNaN(x) THEN NaN
    ELSE IF x < 0 THEN 0
    ELSE IF x > SCALE THEN SCALE
    ELSE x

\* x / (y + 1e-8) for x, y >= 0.
DivEps(x, y) ==
    IF y = 0 THEN (IF x = 0 THEN 0 ELSE Huge)
    ELSE Min2(Huge, (x * SCALE) \div y)

\* The array f with every element computed: numpy arrays hold values, and an
\* expression over an array is evaluated once, when the array is made.
Table(f) == CHOOSE g \in {f} : g = f

RECURSIVE SumRange(_, _, _)
\* s[lo] + ... + s[hi], by halving.
SumRange(s, lo, hi) ==
    IF lo > hi THEN 0
    ELSE IF lo = hi THEN s[lo]
    ELSE LET mid == (lo + hi) \div 2
         IN  SumRange(s, lo, mid) + SumRange(s, mid + 1, hi)

\* np.sum of a sequence.
SumSeq(s) == SumRange(s, 1, Len(s))

\* np.mean of a sequence of integers, rounded toward zero.
MeanSeq(s) == Quot(SumSeq(s), Len(s))

\* np.var: the mean of the squared deviations from the mean.
VarSeq(s) ==
    LET m == MeanSeq(s)
    IN  SumSeq(Table([i \in 1..Len(s) |-> (s[i] - m) * (s[i] - m)])) \div Len(s)

\* np.std
StdSeq(s) == Isqrt(VarSeq(s))

\* ------------------------------------------------------------ images
\* An image is what cv2.imread returns: h rows, w columns, px[<<y, x>>] the
\* <<b, g, r>> triple of 8-bit channels of the pixel in row y, column x.

\* The 4 x 4 tile of black and white pixels in which every pixel differs from
\* the median of its 3 x 3 neighbourhood.
Tile == << <<0, 255, 0, 255>>,
           <<255, 255, 0, 0>>,
           <<0, 0, 255, 255>>,
           <<255, 0, 255, 0>> >>

\* The pixel contents the model decodes files into.
Patterns == {"black", "color", "stripes", "tile", "ramp", "mixed"}
RerunPatterns == {"color", "stripes", "mixed"}

PatternPixel(pat, y, x) ==
    CASE pat = "black"   -> <<0, 0, 0>>
      [] pat = "color"   -> <<10, 200, 90>>
      [] pat = "stripes" -> IF x % 2 = 0 THEN <<0, 0, 0>> ELSE <<255, 255, 255>>
      [] pat = "tile"    -> LET v == Tile[(y % 4) + 1][(x % 4) + 1] IN <<v, v, v>>
      [] pat = "ramp"    -> <<(40 * y) % 256, (24 * x) % 256, 255 - ((24 * x) % 256)>>
      [] pat = "mixed"   -> <<(37 * x * x + 11 * y) % 256,
                              (91 * y + 53 * x * y) % 256,
                              (17 * x + 29 * y * y) % 256>>

MakeImage(h, w, pat) ==
    [h |-> h, w |-> w,
     px |-> Table([p \in (0..(h - 1)) \X (0..(w - 1)) |-> PatternPixel(pat, p[1], p[2])])]

\* The value of image when cv2.imread returned None.
NoImage == [h |-> 0, w |-> 0, px |-> << >>]

\* cv2.cvtColor(image, cv2.COLOR_BGR2GRAY): 0.299 R + 0.587 G + 0.114 B, rounded.
Gray(img) ==
    [p \in DOMAIN img.px |->
        (299 * img.px[p][3] + 587 * img.px[p][2] + 114 * img.px[p][1] + 500) \div 1000]

\* A grid flattened in row-major order (ndarray.ravel).
Ravel(g, h, w) == [i \in 1..(h * w) |-> g[<<(i - 1) \div w, (i - 1) % w>>]]

\* ------------------------------------------------------------ frequency_score
\* The side of the canvas the grayscale image is resampled to.  The source
\* uses 256; the model uses 4, the largest side whose discrete Fourier
\* transform has exact (Gaussian-integer) twiddle factors 1, -i, -1, i.
Canvas == 4

\* The overlap of destination cell i (of Canvas cells) with source pixel y
\* (of n pixels), in units of 1/Canvas of a source pixel.
Overlap(i, y, n) ==
    Max2(0, Min2((i + 1) * n, (y + 1) * Canvas) - Max2(i * n, y * Canvas))

\* The sum of f[<<y, x>>] over the rectangle y0..y1 by x0..x1.
SumRect(f, y0, y1, x0, x1) ==
    LET wd == x1 - x0 + 1
    IN  SumSeq([i \in 1..((y1 - y0 + 1) * wd) |->
                   f[<<y0 + ((i - 1) \div wd), x0 + ((i - 1) % wd)>>]])

\* cv2.resize(gray, (Canvas, Canvas), interpolation=cv2.INTER_AREA): each
\* destination pixel is the area-weighted mean of the source pixels it covers.
Resize(g, h, w) ==
    [d \in (0..(Canvas - 1)) \X (0..(Canvas - 1)) |->
        LET y0   == (d[1] * h) \div Canvas
            y1   == ((d[1] + 1) * h - 1) \div Canvas
            x0   == (d[2] * w) \div Canvas
            x1   == ((d[2] + 1) * w - 1) \div Canvas
            wsum == SumRect([p \in (y0..y1) \X (x0..x1) |->
                        Overlap(d[1], p[1], h) * Overlap(d[2], p[2], w) * g[p]],
                        y0, y1, x0, x1)
        IN  (wsum + (h * w) \div 2) \div (h * w)]

\* The real and imaginary parts of exp(-2 pi i k / Canvas).
TwiddleRe(k) == CASE k % 4 = 0 -> 1 [] k % 4 = 2 -> -1 [] OTHER -> 0
TwiddleIm(k) == CASE k % 4 = 1 -> -1 [] k % 4 = 3 -> 1 [] OTHER -> 0

CanvasCells == (0..(Canvas - 1)) \X (0..(Canvas - 1))

\* The sum of a canvas-sized grid, and of its cells under a mask: a[mask].sum().
SumCanvas(f) == SumRect(f, 0, Canvas - 1, 0, Canvas - 1)
SumMask(f, mask) == SumCanvas([p \in CanvasCells |-> IF p \in mask THEN f[p] ELSE 0])

\* np.abs(np.fft.fft2(gray)): the magnitude of each Fourier coefficient.
FftMagnitude(g) ==
    [f \in CanvasCells |->
        LET re == SumCanvas([p \in CanvasCells |->
                      g[p] * TwiddleRe(f[1] * p[1] + f[2] * p[2])])
            im == SumCanvas([p \in CanvasCells |->
                      g[p] * TwiddleIm(f[1] * p[1] + f[2] * p[2])])
        IN  Isqrt(re * re + im * im)]

\* np.fft.fftshift: the zero frequency moves to the centre of the grid.
FftShift(m) ==
    [p \in CanvasCells |->
        m[<<(p[1] + Canvas \div 2) % Canvas, (p[2] + Canvas \div 2) % Canvas>>]]

\* np.log1p of an integer magnitude, in SCALE units.
Log1p(m) == LnInt(1 + m)

\* The squared distance of a grid cell from the centre (cy, cx).
Radius2(p) ==
    (p[2] - Canvas \div 2) * (p[2] - Canvas \div 2)
  + (p[1] - Canvas \div 2) * (p[1] - Canvas \div 2)

MaxRadius2 == Radius2(<<0, 0>>)

\* r <= 0.25 max_r;  0.25 max_r < r <= 0.6 max_r;  r > 0.6 max_r  (squared).
LowMask  == {p \in CanvasCells : 16 * Radius2(p) <= MaxRadius2}
MidMask  == {p \in CanvasCells : 16 * Radius2(p) > MaxRadius2
                              /\ 100 * Radius2(p) <= 36 * MaxRadius2}
HighMask == {p \in CanvasCells : 100 * Radius2(p) > 36 * MaxRadius2}

\* frequency_score from the log-magnitude spectrum.
FrequencyFromSpectrum(mag_log) ==
    LET total       == SumCanvas(mag_log)
        high_energy == DivEps(SumMask(mag_log, HighMask), total)
        mid_energy  == DivEps(SumMask(mag_log, MidMask), total)
        low_energy  == DivEps(SumMask(mag_log, LowMask), total)
        balance     == DivEps(mid_energy + high_energy, low_energy)
        raw         == (high_energy * 7) \div 10
                       + (((balance * SCALE) \div (balance + SCALE)) * 3) \div 10
    IN  Clip01(raw)

MagLog(img) ==
    LET gray    == Table(Gray(img))
        resized == Table(Resize(gray, img.h, img.w))
        mag     == Table(FftShift(Table(FftMagnitude(resized))))
    IN  Table([p \in CanvasCells |-> Log1p(mag[p])])

frequency_score(img) == FrequencyFromSpectrum(MagLog(img))

\* ------------------------------------------------------------ noise_score
\* Index i clamped into 0..n-1 (cv2.BORDER_REPLICATE, used by cv2.medianBlur).
Replicate(i, n) == Max2(0, Min2(n - 1, i))

\* Index i mirrored into 0..n-1 (cv2.BORDER_REFLECT_101, cv2.Laplacian's default).
Reflect101(i, n) ==
    IF n = 1 THEN 0
    ELSE IF i < 0 THEN -i
    ELSE IF i >= n THEN 2 * n - 2 - i
    ELSE i

Offsets == {-1, 0, 1} \X {-1, 0, 1}

\* The median of the nine values nb[o], o in Offsets.
Median9(nb) ==
    LET o == CHOOSE o \in Offsets :
                 /\ Cardinality({q \in Offsets : nb[q] < nb[o]}) <= 4
                 /\ Cardinality({q \in Offsets : nb[q] <= nb[o]}) >= 5
    IN  nb[o]

\* cv2.medianBlur(gray, 3)
MedianBlur(g, h, w) ==
    [p \in DOMAIN g |->
        Median9(Table([o \in Offsets |->
            g[<<Replicate(p[1] + o[1], h), Replicate(p[2] + o[2], w)>>]]))]

\* np.abs(cv2.Laplacian(gray, cv2.CV_64F)): the 4-neighbour Laplacian.
AbsLaplacian(g, h, w) ==
    [p \in DOMAIN g |->
        Abs(  g[<<Reflect101(p[1] - 1, h), p[2]>>] + g[<<Reflect101(p[1] + 1, h), p[2]>>]
            + g[<<p[1], Reflect101(p[2] - 1, w)>>] + g[<<p[1], Reflect101(p[2] + 1, w)>>]
            - 4 * g[p])]

\* The number of bins and, in 1/255 units, the half-width 0.2 of the range of
\* np.histogram(residual, bins=64, range=(-0.2, 0.2)).
Bins == 64
HalfRange == 51

\* A residual r/255 lies in [-0.2, 0.2].  The residual is a float32
\* difference: for |r| <= 50 it is inside and for |r| >= 52 outside whatever
\* the rounding; |r| = 51 is the edge itself and is taken as inside.
InRange(r) == -HalfRange <= r /\ r <= HalfRange

\* The bin of an in-range residual r/255; the last bin includes its right edge.
BinOf(r) == Min2(Bins - 1, ((r + HalfRange) * Bins) \div (2 * HalfRange)) + 1

\* The counts n of np.histogram: values outside the range are dropped.
HistCounts(res) ==
    LET bin == Table([i \in DOMAIN res |-> IF InRange(res[i]) THEN BinOf(res[i]) ELSE 0])
    IN  [b \in 1..Bins |-> Cardinality({i \in DOMAIN res : bin[i] = b})]

\* 1 / db: the reciprocal of the bin width 0.4 / 64.
InvBinWidth == (Bins * 255) \div (2 * HalfRange)

\* density=True: n / db / n.sum(), with db = 0.4 / 64 the bin width.  When
\* no value lies in the range this is 0.0 / 0 = NaN in every bin.
Density(n) ==
    LET total == SumSeq(n)
    IN  [b \in 1..Bins |->
            IF total = 0 THEN NaN
            ELSE (n[b] * InvBinWidth * SCALE) \div total]

\* (hist + 1e-12) * np.log(hist + 1e-12) for one bin: for an empty bin this
\* is -2.8e-11, zero at the resolution.
XLogX(hbin) == IF hbin = 0 THEN 0 ELSE Quot(hbin * Ln(hbin), SCALE)

\* entropy = -np.sum(hist * np.log(hist))
Entropy(hist) ==
    IF \E b \in 1..Bins : IsNaN(hist[b]) THEN NaN
    ELSE -SumSeq([b \in 1..Bins |-> XLogX(hist[b])])

\* 0.45 * resid_norm + 0.35 * lap_norm + 0.20 * ent_norm
NoiseRaw(resid_norm, lap_norm, ent_norm) ==
    IF IsNaN(resid_norm) \/ IsNaN(lap_norm) \/ IsNaN(ent_norm) THEN NaN
    ELSE Quot(45 * resid_norm + 35 * lap_norm + 20 * ent_norm, 100)

\* noise_score from the grayscale image on: its score and the locals the
\* properties speak of.
NoiseFromGray(gray, h, w) ==
    LET med       == Table(MedianBlur(gray, h, w))
        residual  == Table(Ravel([p \in DOMAIN gray |-> gray[p] - med[p]], h, w))
        lap       == Table(Ravel(AbsLaplacian(gray, h, w), h, w))
        resid_std == (StdSeq(residual) * SCALE) \div 255
        lap_std   == (StdSeq(lap) * SCALE) \div 255
        counts    == Table(HistCounts(residual))
        hist      == Table(Density(counts))
        entropy   == Entropy(hist)
        raw       == NoiseRaw(Tanh(resid_std * 10), Tanh(lap_std * 5),
                              IF IsNaN(entropy) THEN NaN ELSE Tanh(Quot(entropy, 3)))
    IN  [score |-> Clip01(raw), hist |-> hist, entropy |-> entropy,
         in_range |-> SumSeq(counts)]

\* A grayscale buffer shared between the analyzers, which frequency_score
\* leaves blank: noise_score reads it when frequency_score ran before.
NoiseLocals_shared_buffer(img) ==
    LET gray == Table(Gray(img))
    IN  NoiseFromGray(IF "frequency" \in ran THEN Table([p \in DOMAIN gray |-> 0]) ELSE gray,
                      img.h, img.w)

NoiseLocals(img) == NoiseFromGray(Table(Gray(img)), img.h, img.w)

noise_score(img) == NoiseLocals(img).score

\* ------------------------------------------------------------ compression_score
\* bh, bw = 8, 8
bh == 8
bw == 8

\* cv2.imdecode(cv2.imencode('.jpg', image, quality 85)): a deterministic lossy
\* round trip that keeps the shape.  The codec is outside the repository; it
\* is modelled as the attenuation, by a quarter, of each channel's deviation
\* from the mean of its 8 x 8 coding unit (flat units are reproduced exactly,
\* sharp detail is not).
JpegRoundTrip(img) ==
    LET units == {<<p[1] \div 8, p[2] \div 8>> : p \in DOMAIN img.px}
        mean  == Table([u \in units |->
                    LET y1 == Min2(8 * u[1] + 8, img.h) - 1
                        x1 == Min2(8 * u[2] + 8, img.w) - 1
                    IN  [c \in 1..3 |->
                            SumRect([q \in DOMAIN img.px |-> img.px[q][c]],
                                    8 * u[1], y1, 8 * u[2], x1)
                            \div ((y1 - 8 * u[1] + 1) * (x1 - 8 * u[2] + 1))]])
    IN  [img EXCEPT !.px =
            Table([p \in DOMAIN img.px |->
                [c \in 1..3 |->
                    img.px[p][c]
                    - Quot(img.px[p][c] - mean[<<p[1] \div 8, p[2] \div 8>>][c], 4)]])]

RECURSIVE Range(_, _, _)
\* Python's range(start, stop, step) for step > 0, as a sequence.
Range(start, stop, step) ==
    IF start >= stop THEN << >>
    ELSE <<start>> \o Range(start + step, stop, step)

\* The <<y, x>> pairs of two nested loops over ys and xs, in loop order.
Nested(ys, xs) ==
    [k \in 1..(Len(ys) * Len(xs)) |->
        <<ys[((k - 1) \div Len(xs)) + 1], xs[((k - 1) % Len(xs)) + 1]>>]

\* The loops with range(0, h - bh, bh): the last full block is not visited.
BlockOrigins_stop_early(h, w) == Nested(Range(0, h - bh, bh), Range(0, w - bw, bw))

\* The loops with range(0, h, bh): the partial blocks at the edges are visited.
BlockOrigins_to_the_edge(h, w) == Nested(Range(0, h, bh), Range(0, w, bw))

\* The <<y, x>> origins of the blocks the loop of compression_score visits,
\* in the order it visits them.
BlockOrigins(h, w) == Nested(Range(0, h - bh + 1, bh), Range(0, w - bw + 1, bw))

\* The <<row, column>> pairs of error[y:y+bh, x:x+bw] for an h x w error map:
\* a slice is cut off at the array's edge.
BlockCells(o, h, w) ==
    (o[1]..(Min2(o[1] + bh, h) - 1)) \X (o[2]..(Min2(o[2] + bw, w) - 1))

\* np.var(block) of the error map over one block, in (1/255)^2 units.
BlockVar(err, o, h, w) ==
    LET y1 == Min2(o[1] + bh, h) - 1
        x1 == Min2(o[2] + bw, w) - 1
        n  == Cardinality(BlockCells(o, h, w))
        m  == SumRect(err, o[1], y1, o[2], x1) \div n
    IN  SumRect([q \in BlockCells(o, h, w) |-> (err[q] - m) * (err[q] - m)],
                o[1], y1, o[2], x1) \div n

\* Every local of compression_score the claims speak of.
CompressionLocals(img) ==
    LET dec       == JpegRoundTrip(img)
        orig      == Table(Gray(img))
        dec_gray  == Table(Gray(dec))
        error     == Table([p \in DOMAIN orig |-> Abs(orig[p] - dec_gray[p])])
        origins   == Table(BlockOrigins(img.h, img.w))
        variances == Table([k \in 1..Len(origins) |->
                               BlockVar(error, origins[k], img.h, img.w)])
        spread    == StdSeq(variances)
        raw       == Tanh((spread * 50 * SCALE) \div (255 * 255))
    IN  IF Len(variances) = 0
        THEN [score |-> SCALE \div 2, blocks |-> origins, neutral |-> TRUE]
        ELSE [score |-> Clip01(raw), blocks |-> origins, neutral |-> FALSE]

compression_score(img) == CompressionLocals(img).score

\* ------------------------------------------------------------ color_corr_score
\* A channel of the image, flattened: rgb[:, :, c].ravel(), c = 1 for B,
\* 2 for G, 3 for R in the BGR order of cv2.imread.
Channel(img, c) ==
    Table(Ravel([p \in DOMAIN img.px |-> img.px[p][c]], img.h, img.w))

\* N * sum((a-128)(b-128)) - sum(a-128) * sum(b-128): N^2 times the covariance.
CoMoment(a, b) ==
    Len(a) * SumSeq([i \in 1..Len(a) |-> (a[i] - 128) * (b[i] - 128)])
    - SumSeq([i \in 1..Len(a) |-> a[i] - 128]) * SumSeq([i \in 1..Len(b) |-> b[i] - 128])

\* np.std(a) < 1e-6: for 8-bit data, exactly when the variance is zero.
StdBelowEps(a) == CoMoment(a, a) = 0

\* np.corrcoef(a, b)[0, 1], which numpy clips into [-1, 1].
CorrCoef(a, b) ==
    LET c == Quot(Quot(CoMoment(a, b), Isqrt(CoMoment(a, a))) * SCALE,
                  Isqrt(CoMoment(b, b)))
    IN  Max2(-SCALE, Min2(SCALE, c))

\* safe_corr without its guard: np.corrcoef of a constant channel is 0/0.
safe_corr_unguarded(a, b) ==
    IF StdBelowEps(a) \/ StdBelowEps(b) THEN NaN ELSE CorrCoef(a, b)

safe_corr(a, b) ==
    IF StdBelowEps(a) \/ StdBelowEps(b) THEN 0 ELSE CorrCoef(a, b)

\* np.mean of `count` correlations that sum to `total`.
MeanCorr(total, count) == Quot(total, count)

\* color_corr_score from the three pairwise correlations on.
ColorFromCorr(rg, rb, gb, count) ==
    LET avg == IF IsNaN(rg) \/ IsNaN(rb) \/ IsNaN(gb) THEN NaN
               ELSE MeanCorr(rg + rb + gb, count)
    IN  Clip01(IF IsNaN(avg) THEN NaN ELSE Quot(avg + SCALE, 2))

\* The correlations kept in a module-level list that every invocation
\* appends to: the mean runs over the entries of all invocations so far.
color_corr_score_global_list(img) ==
    LET r == Channel(img, 3)
        g == Channel(img, 2)
        b == Channel(img, 1)
    IN  ColorFromCorr(safe_corr(r, g), safe_corr(r, b), safe_corr(g, b), 3 * runs)

color_corr_score(img) ==
    LET r == Channel(img, 3)
        g == Channel(img, 2)
        b == Channel(img, 1)
    IN  ColorFromCorr(safe_corr(r, g), safe_corr(r, b), safe_corr(g, b), 3)

\* ------------------------------------------------------------ forensic_analyze
\* w_freq, w_noise, w_comp, w_color = 0.35, 0.3, 0.2, 0.15, in hundredths.
w_freq  == 35
w_noise == 30
w_comp  == 20
w_color == 15

\* The weights of frequency and noise exchanged.
ForensicScore_swapped_weights(f, n, c, k) ==
    IF IsNaN(f) \/ IsNaN(n) \/ IsNaN(c) \/ IsNaN(k) THEN NaN
    ELSE Clip01((w_noise * f + w_freq * n + w_comp * c + w_color * k) \div 100)

\* forensic_score = float(np.clip(w_freq * freq_s + ... + w_color * color_s, 0, 1))
ForensicScore(f, n, c, k) ==
    IF IsNaN(f) \/ IsNaN(n) \/ IsNaN(c) \/ IsNaN(k) THEN NaN
    ELSE Clip01((w_freq * f + w_noise * n + w_comp * c + w_color * k) \div 100)

Fields == {"forensic_score", "frequency", "noise", "compression", "color_corr"}
NoReport == [f \in Fields |-> Unset]

\* The dictionary forensic_analyze returns.
MakeReport(f, n, c, k) ==
    [forensic_score |-> ForensicScore(f, n, c, k),
     frequency |-> f, noise |-> n, compression |-> c, color_corr |-> k]

\* The four analyzers, in the order forensic_analyze calls them.
Order == <<"frequency", "noise", "compression", "color_corr">>
Analyzers == {Order[i] : i \in 1..Len(Order)}
Position(a) == CHOOSE i \in 1..Len(Order) : Order[i] = a

\* The files image_path can name: one cv2.imread cannot decode, and one per
\* size and content.
Unreadable == [readable |-> FALSE, h |-> 0, w |-> 0, pat |-> "none"]
Readable(hs, ws, pats) ==
    {[readable |-> TRUE, h |-> h, w |-> w, pat |-> pat] : h \in hs, w \in ws, pat \in pats}
Inputs == {Unreadable} \cup Readable(1..MaxH, 1..MaxW, Patterns)
RerunInputs == {Unreadable} \cup Readable(1..MaxRerunDim, 1..MaxRerunDim, RerunPatterns)

\* A decoder that hands back a blank 1 x 1 image for a file it cannot decode.
imread_blank_on_failure(file) ==
    IF file.readable THEN MakeImage(file.h, file.w, file.pat) ELSE MakeImage(1, 1, "black")

\* cv2.imread(image_path): the decoded image, or None.
imread(file) == IF file.readable THEN MakeImage(file.h, file.w, file.pat) ELSE NoImage

locals == <<noise_hist, noise_entropy, blocks, neutral>>
scores == <<freq_s, noise_s, comp_s, color_s>>

\* The value of first while the first invocation runs.
NoFirst == [path |-> Unreadable, report |-> NoReport, exception |-> "running"]

Entry(file) ==
    /\ path = file
    /\ pc = "imread"
    /\ image = NoImage
    /\ ran = {}
    /\ freq_s = Unset /\ noise_s = Unset /\ comp_s = Unset /\ color_s = Unset
    /\ noise_hist = << >> /\ noise_entropy = Unset
    /\ blocks = << >> /\ neutral = FALSE
    /\ report = NoReport
    /\ exception = "none"

Init == \E file \in Inputs : Entry(file) /\ runs = 1 /\ first = NoFirst

InitRerun == \E file \in RerunInputs : Entry(file) /\ runs = 1 /\ first = NoFirst

\* image = cv2.imread(image_path)
Imread ==
    /\ pc = "imread"
    /\ image' = imread(path)
    /\ pc' = "check"
    /\ UNCHANGED <<path, ran, scores, locals, report, exception, runs, first>>

\* The check also rejecting an image smaller than one block.
CheckDecoded_rejects_small ==
    /\ pc = "check"
    /\ IF image = NoImage \/ image.h < bh \/ image.w < bw
       THEN pc' = "raised" /\ exception' = "ValueError"
       ELSE pc' = "analyze" /\ exception' = exception
    /\ UNCHANGED <<path, image, ran, scores, locals, report, runs, first>>

\* if image is None: raise ValueError(...)
CheckDecoded ==
    /\ pc = "check"
    /\ IF image = NoImage
       THEN pc' = "raised" /\ exception' = "ValueError"
       ELSE pc' = "analyze" /\ exception' = exception
    /\ UNCHANGED <<path, image, ran, scores, locals, report, runs, first>>

\* Analyzer a may start: every call is made when the calls before it returned.
Turn(a) == \A i \in 1..(Position(a) - 1) : Order[i] \in ran

CanRun(a, ordered) == pc = "analyze" /\ a \notin ran /\ (ordered => Turn(a))

\* freq_s, _ = frequency_score(image)
FrequencyStep(ordered) ==
    /\ CanRun("frequency", ordered)
    /\ freq_s' = frequency_score(image)
    /\ ran' = ran \cup {"frequency"}
    /\ UNCHANGED <<path, pc, image, noise_s, comp_s, color_s, locals, report, exception, runs, first>>

\* noise_s, _ = noise_score(image)
NoiseStep(ordered) ==
    /\ CanRun("noise", ordered)
    /\ LET l == NoiseLocals(image)
       IN  /\ noise_s' = l.score
           /\ noise_hist' = l.hist
           /\ noise_entropy' = l.entropy
    /\ ran' = ran \cup {"noise"}
    /\ UNCHANGED <<path, pc, image, freq_s, comp_s, color_s, blocks, neutral, report, exception, runs, first>>

\* comp_s, _ = compression_score(image)
CompressionStep(ordered) ==
    /\ CanRun("compression", ordered)
    /\ LET l == CompressionLocals(image)
       IN  /\ comp_s' = l.score
           /\ blocks' = l.blocks
           /\ neutral' = l.neutral
    /\ ran' = ran \cup {"compression"}
    /\ UNCHANGED <<path, pc, image, freq_s, noise_s, color_s, noise_hist, noise_entropy, report, exception, runs, first>>

\* color_s = color_corr_score(image)
ColorStep(ordered) ==
    /\ CanRun("color_corr", ordered)
    /\ color_s' = color_corr_score(image)
    /\ ran' = ran \cup {"color_corr"}
    /\ UNCHANGED <<path, pc, image, freq_s, noise_s, comp_s, locals, report, exception, runs, first>>

\* The weighted sum, the clip and the return of the dictionary.
Aggregate ==
    /\ pc = "analyze"
    /\ ran = Analyzers
    /\ report' = MakeReport(freq_s, noise_s, comp_s, color_s)
    /\ pc' = "returned"
    /\ UNCHANGED <<path, image, ran, scores, locals, exception, runs, first>>

\* The caller invokes forensic_analyze again, on any file.
Invoke ==
    /\ pc \in {"returned", "raised"}
    /\ runs < MaxRuns
    /\ first' = IF runs = 1 THEN [path |-> path, report |-> report, exception |-> exception]
                          ELSE first
    /\ runs' = runs + 1
    /\ \E file \in RerunInputs :
          /\ path' = file
          /\ pc' = "imread"
          /\ image' = NoImage
          /\ ran' = {}
          /\ freq_s' = Unset /\ noise_s' = Unset /\ comp_s' = Unset /\ color_s' = Unset
          /\ noise_hist' = << >> /\ noise_entropy' = Unset
          /\ blocks' = << >> /\ neutral' = FALSE
          /\ report' = NoReport
          /\ exception' = "none"

\* One invocation, as the source runs it.
Next ==
    \/ Imread
    \/ CheckDecoded
    \/ FrequencyStep(TRUE)
    \/ NoiseStep(TRUE)
    \/ CompressionStep(TRUE)
    \/ ColorStep(TRUE)
    \/ Aggregate

Spec == Init /\ [][Next]_vars

\* Repeated invocations, as the source runs each.
NextRerun == Next \/ Invoke

SpecRerun == InitRerun /\ [][NextRerun]_vars

\* One invocation with the four analyzers in any order.
NextAnyOrder ==
    \/ Imread
    \/ CheckDecoded
    \/ FrequencyStep(FALSE)
    \/ NoiseStep(FALSE)
    \/ CompressionStep(FALSE)
    \/ ColorStep(FALSE)
    \/ Aggregate

SpecAnyOrder == InitRerun /\ [][NextAnyOrder]_vars

\* ------------------------------------------------------------ properties
Returned == pc = "returned"
Scores == 0..SCALE

\* forensic_analyze can take its next step.  An analyzer's step assigns
\* values and nothing else, so it is enabled exactly when its guard holds.
CanStep ==
    \/ ENABLED (Imread \/ CheckDecoded \/ Aggregate)
    \/ \E a \in Analyzers : CanRun(a, TRUE)

\* C1: for every decoded image, each of the five values forensic_analyze
\* returns lies in [0.0, 1.0]; no NaN is returned or fed into the weighted sum.
C1_ScoresInUnitInterval ==
    /\ Returned => \A f \in Fields : report[f] \in Scores
    /\ freq_s  \in Scores \cup {Unset}
    /\ noise_s \in Scores \cup {Unset}
    /\ comp_s  \in Scores \cup {Unset}
    /\ color_s \in Scores \cup {Unset}

\* C2: when the file cannot be decoded, forensic_analyze raises the decode
\* error before any analyzer has run, and returns no report, full or partial.
C2_DecodeFailureFailsFast ==
    ~path.readable =>
        /\ ran = {}
        /\ freq_s = Unset /\ noise_s = Unset /\ comp_s = Unset /\ color_s = Unset
        /\ report = NoReport
        /\ pc \in {"imread", "check", "raised"}
        /\ pc = "raised" => exception = "ValueError"
        /\ pc # "raised" => CanStep

C2_Witness == pc = "raised" /\ ~path.readable /\ exception = "ValueError"

C4_NeutralIffNoBlock ==
    "compression" \in ran =>
        /\ (image.h < 8 \/ image.w < 8) => comp_s = 500 /\ neutral
        /\ neutral => blocks = << >> /\ (image.h < 8 \/ image.w < 8)

\* A wide image lower than one block took the neutral branch.
C4_Witness ==
    /\ "compression" \in ran
    /\ image.h = 4 /\ image.w >= 16
    /\ comp_s = 500 /\ neutral

\* Every pixel of the image has the same colour.
Flat(img) == \A p, q \in DOMAIN img.px : img.px[p] = img.px[q]

\* C5: color_corr_score returns exactly 0.5 for a flat single-colour image of
\* any size.
C5_FlatImageScoresHalf ==
    ("color_corr" \in ran /\ Flat(image)) => color_s = 500

C5_Witness ==
    /\ "color_corr" \in ran
    /\ path.pat = "color" /\ image.h > 1 /\ image.w > 1
    /\ Flat(image) /\ color_s = 500

\* C6: the report's forensic_score is clip(0.35 a + 0.30 b + 0.20 c + 0.15 d,
\* 0, 1) for the sub-scores a, b, c, d of the same report, and the four
\* weights sum to 1.
C6_WeightedSumIdentity ==
    /\ w_freq + w_noise + w_comp + w_color = 100
    /\ Returned =>
         LET a == report.frequency
             b == report.noise
             c == report.compression
             d == report.color_corr
             sum == (35 * a + 30 * b + 20 * c + 15 * d) \div 100
         IN  /\ a = freq_s /\ b = noise_s /\ c = comp_s /\ d = color_s
             /\ report.forensic_score =
                  IF NaN \in {a, b, c, d} THEN NaN
                  ELSE IF sum < 0 THEN 0 ELSE IF sum > 1000 THEN 1000 ELSE sum

\* A report whose four sub-scores are all positive and differ.
C6_Witness ==
    /\ Returned
    /\ report.frequency > 0 /\ report.noise > 0
    /\ report.compression > 0 /\ report.color_corr > 0
    /\ report.frequency # report.noise
    /\ report.forensic_score > 0 /\ report.forensic_score < 1000

\* C7: an invocation on the file of the first invocation ends as the first
\* did: the same five values, or the same exception, whatever ran in between.
C7_SameInputSameReport ==
    (runs > 1 /\ pc \in {"returned", "raised"} /\ path = first.path) =>
        report = first.report /\ exception = first.exception

\* The third invocation returned, on the file the first returned on.
C7_Witness ==
    /\ runs = 3 /\ Returned
    /\ path = first.path /\ path.readable /\ path.pat = "mixed"
    /\ report = first.report /\ report.color_corr # 500

\* C8: in any order of the four analyzers, the image stays as decoded, each
\* sub-score is what its analyzer gives in the sequential order, and the
\* report is made only when all four sub-scores are there.
C8_AnalyzersIndependent ==
    /\ pc \in {"analyze", "returned"} => image = imread(path)
    /\ "frequency" \in ran   => freq_s = frequency_score(imread(path))
    /\ "noise" \in ran       => noise_s = noise_score(imread(path))
    /\ "compression" \in ran => comp_s = compression_score(imread(path))
    /\ "color_corr" \in ran  => color_s = color_corr_score(imread(path))
    /\ report # NoReport =>
         /\ ran = Analyzers
         /\ report.frequency = freq_s /\ report.noise = noise_s
         /\ report.compression = comp_s /\ report.color_corr = color_s

\* The last analyzer of the source's order returned before the first ran.
C8_Witness ==
    /\ "color_corr" \in ran /\ "noise" \in ran /\ "frequency" \notin ran
    /\ noise_s > 0

\* C9: the histogram of noise_score is a probability distribution when the
\* entropy is computed: 64 non-negative bins that sum to 1, so that the
\* entropy is non-negative and at most ln(64).
C9_HistogramIsDistribution ==
    "noise" \in ran =>
        /\ Len(noise_hist) = 64
        /\ \A b \in 1..64 : noise_hist[b] >= 0
        /\ Abs(SumSeq(noise_hist) - SCALE) <= 64
        /\ noise_entropy >= 0
        /\ noise_entropy <= LnInt(64)

\* The pixels of the full 8 x 8 tile whose top-left corner is o.
Tile8(o) == (o[1]..(o[1] + 7)) \X (o[2]..(o[2] + 7))

\* C10: the block loop visits floor(H/8) * floor(W/8) blocks, each a full
\* 8 x 8 tile inside the map, no two overlapping, together covering exactly
\* the pixels of row < 8 floor(H/8) and column < 8 floor(W/8).
C10_BlocksPartition ==
    "compression" \in ran =>
        LET h == image.h
            w == image.w
        IN  /\ Len(blocks) = (h \div 8) * (w \div 8)
            /\ \A k \in 1..Len(blocks) :
                 /\ Tile8(blocks[k]) \subseteq DOMAIN image.px
                 /\ BlockCells(blocks[k], h, w) = Tile8(blocks[k])
            /\ \A j, k \in 1..Len(blocks) :
                 j # k => Tile8(blocks[j]) \cap Tile8(blocks[k]) = {}
            /\ UNION {Tile8(blocks[k]) : k \in 1..Len(blocks)}
                 = (0..(8 * (h \div 8) - 1)) \X (0..(8 * (w \div 8) - 1))

\* Two blocks were visited and a remainder at both edges was left out.
C10_Witness ==
    /\ "compression" \in ran
    /\ image.h = 9 /\ image.w = 17
    /\ blocks = <<<<0, 0>>, <<0, 8>>>>
====
